---- MODULE Spec2Model ----
(***************************************************************************)
(* yeti_utils.py: helpers that drive the Yeti node graph of a Maya scene   *)
(* and guided_grooms(), which wires a convert/guide/blend network into     *)
(* every Yeti node a selected groom is connected to.                       *)
(*                                                                         *)
(* The host (Maya scene, Yeti graphs, UI windows) is the state; every      *)
(* helper call made by guided_grooms is one action.  Python 2 semantics    *)
(* (dict.keys() is a list).                                                *)
(***************************************************************************)
EXTENDS Integers, Sequences, FiniteSets, TLC

VARIABLES
    windows,        \* host: names of the open UI windows (cmds.lsUI(type='window'))
    sel,            \* host: current selection, cmds.ls(sl=1)
    conn,           \* host: groom shape -> connected pgYetiMaya nodes, in connection order
    graph,          \* host: Yeti node -> its graph nodes, in host listing order
    conns,          \* host: graph connections [yeti, from, to, input, by]
    curves,         \* host: the nurbsCurve shapes of the scene, in listing order
    members,        \* host: <<object set, transform>> pairs added with cmds.sets(add=)
    nNodes,         \* host: graph nodes created so far (names the next one)
    nCurves,        \* host: curves created so far
    nSets,          \* host: object sets created so far
    pc,             \* guided_grooms: position
    fault,          \* the unhandled exception that ended the run, or FaultNone
    graph_open,     \* guided_grooms local
    grooms,         \* guided_grooms: the list get_sel_grooms() returned
    gi,             \* guided_grooms: index of `groom` in grooms
    yeti_nodes,     \* guided_grooms local
    yi,             \* guided_grooms: index of `yeti` in yeti_nodes
    groom_dict,     \* guided_grooms local
    geo_nodes,      \* guided_grooms local
    groom_nodes,    \* guided_grooms local
    ni,             \* guided_grooms: index of `groom_node` in groom_nodes
    guide_import,   \* guided_grooms local
    convert_node,   \* guided_grooms local
    guide_node,     \* guided_grooms local
    blend_node,     \* guided_grooms local
    before_curves,  \* groom_to_curves local
    call,           \* the last helper call that returned: [fn, args.., ret]
    warnings,       \* log: cmds.warning calls, [by, yeti, msg]
    paramLog,       \* log: set_param calls, [by, yeti, node, param, val, how]
    guideSets,      \* log: pgYetiAddGuideSet calls, [by, yeti, gset]
    attrs,          \* log: cmds.setAttr calls, [obj, attr, val]
    produced,       \* log: per converted groom, the curves its conversion command made
    dicts,          \* log: per converted groom, the mapping groom_to_curves returned
    examined,       \* log: the <<gi, yi>> visits whose import queries ran
    entryWin        \* log: whether the graph window was open when guided_grooms began

ui == <<windows>>
scene == <<sel, conn, curves, members, nCurves, nSets>>
graphs == <<graph, conns, nNodes>>
ctl == <<pc, fault>>
loopVars == <<grooms, gi, yeti_nodes, yi>>
visitVars == <<groom_dict, geo_nodes, groom_nodes>>
wireVars == <<ni, guide_import, convert_node, guide_node, blend_node>>
locals == <<graph_open, loopVars, visitVars, wireVars>>
conv == <<before_curves, call>>
skipLogs == <<warnings, examined>>
wireLogs == <<paramLog, guideSets, attrs>>
convLogs == <<produced, dicts>>
logs == <<skipLogs, wireLogs, convLogs, entryWin>>
vars == <<ui, scene, graphs, ctl, locals, conv, logs>>

----------------------------------------------------------------------------
(* Bounds of the explored scenes *)

\* longest selection explored
MaxSel == 2
\* the curves one conversion command creates, when it creates any
MaxCurves == 2
\* most helper calls of each kind in one behaviour of SpecHelpers
MaxCalls == 1
\* most curves other logic creates during one conversion
MaxOther == 1

----------------------------------------------------------------------------
(* The host scene *)

YETI_WIN == "pgYetiGraphPanelWindow"

Yetis == {"y1", "y2"}
SelObjects == {"g1T", "g2", "mesh1T"}

\* cmds.objectType
ObjectType(obj) ==
    CASE obj \in {"g1T", "mesh1T"} -> "transform"
      [] obj \in {"g1", "g2"} -> "pgYetiGroom"
      [] OTHER -> "mesh"

\* cmds.listRelatives(obj, shapes=1)
Shapes(obj) ==
    CASE obj = "g1T" -> <<"g1">>
      [] obj = "mesh1T" -> <<"mesh1">>
      [] OTHER -> <<>>

\* cmds.listRelatives(c, parent=1)[0]
Parent(c) == c \o "_T"

NoVisit == <<0, 0>>
Visit == <<gi, yi>>

FaultNone == [kind |-> "none", line |-> 0]

\* Python's None / '' for an optional string argument
NoString == ""

----------------------------------------------------------------------------
(* get_sel_grooms *)

RECURSIVE SelGroomsFrom(_, _)
SelGroomsFrom(s, i) ==
    IF i > Len(s) THEN <<>>
    ELSE LET obj == s[i]
             shape == IF ObjectType(obj) = "transform" THEN Shapes(obj)[1] ELSE obj
         IN (IF ObjectType(shape) = "pgYetiGroom" THEN <<shape>> ELSE <<>>)
                \o SelGroomsFrom(s, i + 1)

get_sel_grooms(s) == SelGroomsFrom(s, 1)

----------------------------------------------------------------------------
(* yetis_from_groom: cmds.listConnections gives None, not [], when nothing *)
(* is connected; the empty list is kept as a second possible answer.       *)

PyList(l) == [isNone |-> FALSE, list |-> l]
PyNone == [isNone |-> TRUE, list |-> <<>>]

yetis_from_groom(c, groom) ==
    IF c[groom] = <<>> THEN {PyNone, PyList(<<>>)} ELSE {PyList(c[groom])}

----------------------------------------------------------------------------
(* refresh_graph *)

RefreshGraphNoDelete(w) == w \cup {YETI_WIN}

refresh_graph(w) ==
    LET torn == w \cup {YETI_WIN}       \* pgYetiTearOffGraphPanel
    IN IF YETI_WIN \in torn THEN torn \ {YETI_WIN} ELSE torn

----------------------------------------------------------------------------
(* create_node, set_param, connect_nodes: the graph part of each helper;   *)
(* every caller applies refresh_graph to `windows` in the same step.       *)

\* the parameters the host gives a new node
HostDefaults == {[ptype |-> 0, geometry |-> "*"], [ptype |-> 1, geometry |-> NoString]}

\* the name the host gives the n-th node it creates
HostName(type, n) == type \o ToString(n)

NodeIds(g) == {g[i].id : i \in 1..Len(g)}

\* nodes other than imports carry no type/geometry parameter
NoParams == [ptype |-> -1, geometry |-> NoString]

\* [nodes, node]: the graph after the call and the handle returned
create_node(g, type, name, n, dflt, by) ==
    LET node == HostName(type, n)
        id == IF name # NoString THEN name ELSE node
    IN [nodes |-> Append(g, [id |-> id, kind |-> type, ptype |-> dflt.ptype,
                             geometry |-> dflt.geometry, by |-> by]),
        node |-> id]

DisconnectAll(cs, yeti, node) == {c \in cs : c.yeti # yeti}

\* pgYetiGraph -disconnect 0 -node {node}
Disconnect0(cs, yeti, node) ==
    {c \in cs : ~(c.yeti = yeti /\ c.to = node /\ c.input = 0)}

set_param_type_dict ==
    [scalar |-> "setParamValueScalar", string |-> "setParamValueString ",
     vector |-> "setParamValueVector", expression |-> "setParamValueExpr",
     boolean |-> "setParamValueBoolean"]

set_param(g, param, node, val) ==
    [i \in 1..Len(g) |->
        IF g[i].id = node
        THEN IF param = "type" THEN [g[i] EXCEPT !.ptype = val]
             ELSE IF param = "geometry" THEN [g[i] EXCEPT !.geometry = val]
             ELSE g[i]
        ELSE g[i]]

ParamCall(yeti, param, node, val, type, by) ==
    [by |-> by, yeti |-> yeti, node |-> node, param |-> param, val |-> val,
     how |-> set_param_type_dict[type]]

ConnectNodesSwapped(cs, yeti, from_node, to_node, input, by) ==
    cs \cup {[yeti |-> yeti, from |-> to_node, to |-> from_node, input |-> input,
              by |-> by]}

connect_nodes(cs, yeti, from_node, to_node, input, by) ==
    cs \cup {[yeti |-> yeti, from |-> from_node, to |-> to_node, input |-> input,
              by |-> by]}

----------------------------------------------------------------------------
(* get_imports *)

type_dict == [geometry |-> 0, groom |-> 1, guides |-> 2, feather |-> 3, braid |-> 4]

ImportTypes == {"geometry", "groom", "guides", "feather", "braid"}

\* pgYetiGraph -listNodes -type "import"
ListImports(g) == SelectSeq(g, LAMBDA n : n.kind = "import")

RECURSIVE TypeNodesWildcard(_, _, _, _)
TypeNodesWildcard(imp_nodes, i, code, selection) ==
    IF i > Len(imp_nodes) THEN <<>>
    ELSE LET n == imp_nodes[i]
             keep == /\ n.ptype = code
                     /\ \/ selection = NoString
                        \/ selection = "*"
                        \/ n.geometry = selection
         IN (IF keep THEN <<n.id>> ELSE <<>>)
                \o TypeNodesWildcard(imp_nodes, i + 1, code, selection)

RECURSIVE TypeNodes(_, _, _, _)
TypeNodes(imp_nodes, i, code, selection) ==
    IF i > Len(imp_nodes) THEN <<>>
    ELSE LET n == imp_nodes[i]
             keep == IF n.ptype = code
                     THEN IF selection # NoString
                          THEN n.geometry = selection
                          ELSE TRUE
                     ELSE FALSE
         IN (IF keep THEN <<n.id>> ELSE <<>>)
                \o TypeNodes(imp_nodes, i + 1, code, selection)

get_imports(g, type, selection) ==
    TypeNodes(ListImports(g), 1, type_dict[type], selection)

----------------------------------------------------------------------------
(* groom_to_curves *)

\* cmds.ls(type='nurbsCurve')
LsCurves(cs) == [i \in 1..Len(cs) |-> cs[i].shape]

InSeq(x, s) == \E i \in 1..Len(s) : s[i] = x

CurveName(n) == "curve" \o ToString(n)
SetName(n) == "set" \o ToString(n)

\* pgYetiCommand -convertToCurves: k new curves, their transforms connected
\* to one new object set
RECURSIVE HostConvert(_, _, _, _)
HostConvert(cs, k, n, s) ==
    IF k = 0 THEN cs
    ELSE HostConvert(Append(cs, [shape |-> CurveName(n + 1), oset |-> SetName(s + 1)]),
                     k - 1, n + 1, s)

MadeCurves(k, n) == {CurveName(n + j) : j \in 1..k}

\* cmds.listConnections(Parent(c), type='objectSet'); NoString stands for None
ConnectedSet(cs, c) ==
    LET i == CHOOSE j \in 1..Len(cs) : cs[j].shape = c IN cs[i].oset

NewCurvesNoDiff(before, after) == after

\* line 36
NewCurves(before, after) == SelectSeq(after, LAMBDA c : ~InSeq(c, before))

\* lines 36-47: [fault, dict, adds]; a dict is a sequence of [key, val] items
NewCurveDict(before, after, cs) ==
    LET new_curves == NewCurves(before, after)
        new_curves_transforms == [i \in 1..Len(new_curves) |-> Parent(new_curves[i])]
    IN IF new_curves = <<>>
       THEN [fault |-> FALSE, dict |-> <<>>, adds |-> {}]
       ELSE LET guide_set == ConnectedSet(cs, new_curves[1])
            IN IF guide_set = NoString
               THEN [fault |-> TRUE, dict |-> <<>>, adds |-> {}]
               ELSE [fault |-> FALSE,
                     dict |-> <<[key |-> guide_set, val |-> new_curves]>>,
                     adds |-> {<<guide_set, new_curves_transforms[i]>> :
                                 i \in 1..Len(new_curves)}]

Range(s) == {s[i] : i \in 1..Len(s)}

----------------------------------------------------------------------------
(* The scenes explored *)

SeqsUpTo(S, n) == UNION {[1..k -> S] : k \in 0..n}

Imp(id, t, g) == [id |-> id, kind |-> "import", ptype |-> t, geometry |-> g, by |-> NoVisit]

\* graphs of y1: one geometry + one explicit groom import; two explicit groom
\* imports around a wildcard one; two geometry imports; no groom import
GraphsY1 ==
    { <<Imp("geo1", 0, "*"), Imp("imp1", 1, "g1")>>,
      <<Imp("imp1", 1, "g1"), Imp("geo1", 0, "body"), Imp("imp2", 1, "*"),
        Imp("imp3", 1, "g1"), Imp("imp4", 2, "g1")>>,
      <<Imp("geo1", 0, "body"), Imp("geo2", 0, "g1"), Imp("imp1", 1, "*")>>,
      <<Imp("geo1", 0, "*")>> }

\* graphs of y2: a wildcard groom import; groom imports but no geometry import
GraphsY2 ==
    { <<Imp("geo1", 0, "body"), Imp("imp1", 1, "*"), Imp("imp2", 3, "g1")>>,
      <<Imp("imp1", 1, "g1"), Imp("imp2", 1, "g2")>> }

\* y2 shared by both grooms; a groom connected to nothing
Conns ==
    { [g1 |-> <<"y1", "y2">>, g2 |-> <<"y2">>],
      [g1 |-> <<"y2", "y1">>, g2 |-> <<"y1">>],
      [g1 |-> <<>>, g2 |-> <<"y2">>],
      [g1 |-> <<"y1">>, g2 |-> <<>>] }

OldCurves == <<[shape |-> "old1", oset |-> "oldset"]>>

InitHost ==
    /\ windows \in {{}, {YETI_WIN}}
    /\ conns = {}
    /\ curves = OldCurves
    /\ members = {}
    /\ nNodes = 0 /\ nCurves = 0 /\ nSets = 0

InitLocals ==
    /\ fault = FaultNone
    /\ graph_open = 0
    /\ grooms = <<>> /\ gi = 0
    /\ yeti_nodes = PyList(<<>>) /\ yi = 0
    /\ groom_dict = <<>> /\ geo_nodes = <<>> /\ groom_nodes = <<>>
    /\ ni = 0
    /\ guide_import = NoString /\ convert_node = NoString
    /\ guide_node = NoString /\ blend_node = NoString
    /\ before_curves = <<>>
    /\ call = [fn |-> "none", open |-> FALSE]
    /\ warnings = <<>> /\ paramLog = {} /\ guideSets = {} /\ attrs = {}
    /\ produced = <<>> /\ dicts = <<>> /\ examined = {}
    /\ entryWin = FALSE

Init ==
    /\ InitHost
    /\ InitLocals
    /\ sel \in SeqsUpTo(SelObjects, MaxSel)
    /\ conn \in Conns
    /\ graph \in [y1 : GraphsY1, y2 : GraphsY2]
    /\ pc = "entry"

----------------------------------------------------------------------------
(* guided_grooms *)

groom == grooms[gi]
yeti == yeti_nodes.list[yi]

\* groom_dict.keys()[0]
FirstKey(d) == d[1].key

Abort(kind, line) ==
    /\ fault' = [kind |-> kind, line |-> line]
    /\ pc' = "aborted"

\* lines 172-178: remember the window, close it, list the selected grooms
Enter ==
    /\ pc = "entry"
    /\ entryWin' = (YETI_WIN \in windows)
    /\ IF YETI_WIN \in windows
       THEN windows' = refresh_graph(windows) /\ graph_open' = 1
       ELSE windows' = windows /\ graph_open' = 0
    /\ grooms' = get_sel_grooms(sel)
    /\ gi' = 0
    /\ pc' = "for_groom"
    /\ UNCHANGED <<scene, graphs, fault, yeti_nodes, yi, visitVars, wireVars, conv,
                   skipLogs, wireLogs, convLogs>>

\* lines 178-180: next groom, its Yeti nodes
ForGroom ==
    /\ pc = "for_groom"
    /\ IF gi < Len(grooms)
       THEN /\ gi' = gi + 1
            /\ yeti_nodes' \in yetis_from_groom(conn, grooms[gi + 1])
            /\ yi' = 0
            /\ pc' = "convert"
       ELSE /\ pc' = "reopen"
            /\ UNCHANGED <<gi, yeti_nodes, yi>>
    /\ UNCHANGED <<ui, scene, graphs, fault, graph_open, grooms, visitVars, wireVars,
                   conv, logs>>

\* line 182: groom_to_curves(groom), the host running the script alone
Convert ==
    /\ pc = "convert"
    /\ \E k \in {0, MaxCurves} :
        LET before == LsCurves(curves)
            cs == HostConvert(curves, k, nCurves, nSets)
            r == NewCurveDict(before, LsCurves(cs), cs)
        IN /\ curves' = cs
           /\ nCurves' = nCurves + k
           /\ nSets' = nSets + (IF k > 0 THEN 1 ELSE 0)
           /\ before_curves' = before
           /\ produced' = Append(produced, MadeCurves(k, nCurves))
           /\ IF r.fault
              THEN /\ Abort("TypeError", 43)
                   /\ UNCHANGED <<groom_dict, members, dicts>>
              ELSE /\ groom_dict' = r.dict
                   /\ members' = members \cup r.adds
                   /\ dicts' = Append(dicts, r.dict)
                   /\ pc' = "for_yeti"
                   /\ UNCHANGED fault
    /\ UNCHANGED <<ui, sel, conn, graphs, graph_open, loopVars, geo_nodes, groom_nodes,
                   wireVars, call, skipLogs, wireLogs, entryWin>>

\* line 184: next Yeti node; iterating None raises
ForYeti ==
    /\ pc = "for_yeti"
    /\ IF yeti_nodes.isNone
       THEN Abort("TypeError", 184) /\ UNCHANGED yi
       ELSE IF yi < Len(yeti_nodes.list)
       THEN yi' = yi + 1 /\ pc' = "examine" /\ UNCHANGED fault
       ELSE pc' = "for_groom" /\ UNCHANGED <<yi, fault>>
    /\ UNCHANGED <<ui, scene, graphs, graph_open, grooms, gi, yeti_nodes, visitVars,
                   wireVars, conv, logs>>

PrecheckGroomsOnly(geo, gr) ==
    IF gr = <<>> THEN "no grooms" ELSE "go"

\* lines 193-204: which branch the instance takes
Precheck(geo, gr) ==
    IF gr = <<>> THEN "no grooms"
    ELSE IF Len(geo) # 1 THEN "several geometry"
    ELSE "go"

\* lines 186-191: the groom imports of the instance, the wildcard ones failing that
ResolveGroomNodes(g, gr) ==
    LET explicit == get_imports(g, "groom", gr)
    IN IF explicit = <<>> THEN get_imports(g, "groom", "*") ELSE explicit

\* lines 186-204: query the imports; warn and skip, or go on
Examine ==
    /\ pc = "examine"
    /\ LET geo == get_imports(graph[yeti], "geometry", NoString)
           gr == ResolveGroomNodes(graph[yeti], groom)
           branch == Precheck(geo, gr)
       IN /\ geo_nodes' = geo
          /\ groom_nodes' = gr
          /\ examined' = examined \cup {Visit}
          /\ IF branch = "go"
             THEN pc' = "add_guide_set" /\ UNCHANGED warnings
             ELSE /\ warnings' = Append(warnings,
                                        [by |-> Visit, yeti |-> yeti, msg |-> branch])
                  /\ pc' = "for_yeti"
    /\ UNCHANGED <<ui, scene, graphs, fault, graph_open, loopVars, groom_dict, wireVars,
                   conv, wireLogs, convLogs, entryWin>>

AddGuideSetSkipsEmpty ==
    /\ pc = "add_guide_set"
    /\ IF groom_dict = <<>>
       THEN pc' = "for_yeti" /\ UNCHANGED <<fault, guideSets>>
       ELSE /\ guideSets' = guideSets \cup
                    {[by |-> Visit, yeti |-> yeti, gset |-> groom_dict[1].key]}
            /\ pc' = "create_guide_import"
            /\ UNCHANGED fault
    /\ UNCHANGED <<ui, scene, graphs, locals, conv, skipLogs, paramLog, attrs, convLogs,
                   entryWin>>

\* lines 206-207: pgYetiAddGuideSet; keys()[0] of an empty dict raises first
AddGuideSet ==
    /\ pc = "add_guide_set"
    /\ IF groom_dict = <<>>
       THEN Abort("IndexError", 207) /\ UNCHANGED guideSets
       ELSE /\ guideSets' = guideSets \cup
                    {[by |-> Visit, yeti |-> yeti, gset |-> FirstKey(groom_dict)]}
            /\ pc' = "create_guide_import"
            /\ UNCHANGED fault
    /\ UNCHANGED <<ui, scene, graphs, locals, conv, skipLogs, paramLog, attrs, convLogs,
                   entryWin>>

\* one graph-mutating helper call in the current instance: the graph command,
\* then refresh_graph
GraphCall(fn, g2, cs2) ==
    /\ graph' = [graph EXCEPT ![yeti] = g2]
    /\ conns' = cs2
    /\ windows' = refresh_graph(windows)
    /\ call' = [fn |-> fn, open |-> YETI_WIN \in windows]

\* the handle create_node returns for a node made now
Created(type, name) ==
    create_node(<<>>, type, name, nNodes + 1, NoParams, NoVisit).node

CreateCall(type, name, dflt) ==
    /\ GraphCall("create_node", create_node(graph[yeti], type, name, nNodes + 1, dflt, Visit).nodes,
                 Disconnect0(conns, yeti, HostName(type, nNodes + 1)))
    /\ nNodes' = nNodes + 1
    /\ UNCHANGED <<scene, fault, graph_open, loopVars, visitVars, ni, before_curves,
                   logs>>

ConnectCall(from_node, to_node, input) ==
    /\ GraphCall("connect_nodes", graph[yeti], connect_nodes(conns, yeti, from_node, to_node, input, Visit))
    /\ UNCHANGED <<scene, nNodes, fault, locals, before_curves, logs>>

SetParamCall(param, node, val, text, type) ==
    /\ GraphCall("set_param", set_param(graph[yeti], param, node, val), conns)
    /\ paramLog' = paramLog \cup {ParamCall(yeti, param, node, text, type, Visit)}
    /\ UNCHANGED <<scene, nNodes, fault, locals, before_curves, skipLogs, guideSets,
                   attrs, convLogs, entryWin>>

\* lines 210-211
CreateGuideImport ==
    /\ pc = "create_guide_import"
    /\ \E dflt \in HostDefaults : CreateCall("import", FirstKey(groom_dict), dflt)
    /\ guide_import' = Created("import", FirstKey(groom_dict))
    /\ pc' = "set_type"
    /\ UNCHANGED <<convert_node, guide_node, blend_node>>

\* line 214
SetType ==
    /\ pc = "set_type"
    /\ SetParamCall("type", guide_import, 2, "2", "scalar")
    /\ pc' = "set_geometry"

\* lines 217-218
SetGeometry ==
    /\ pc = "set_geometry"
    /\ SetParamCall("geometry", guide_import, FirstKey(groom_dict),
                    FirstKey(groom_dict), "string")
    /\ pc' = "guide_attrs"

GuideAttrsFirstOnly(d) ==
    {[obj |-> FirstKey(d), attr |-> "maxNumberOfGuideInfluences", val |-> 1]}
    \cup {[obj |-> d[1].val[1], attr |-> a[1], val |-> a[2]] :
            a \in {<<"weight", 10>>, <<"tipAttraction", 1>>, <<"baseAttraction", 1>>}}

\* lines 221-226: the setAttr calls issued for a mapping
GuideAttrs(d) ==
    {[obj |-> FirstKey(d), attr |-> "maxNumberOfGuideInfluences", val |-> 1]}
    \cup {[obj |-> guide, attr |-> a[1], val |-> a[2]] :
            guide \in Range(d[1].val),
            a \in {<<"weight", 10>>, <<"tipAttraction", 1>>, <<"baseAttraction", 1>>}}

\* lines 220-226
SetGuideAttrs ==
    /\ pc = "guide_attrs"
    /\ attrs' = attrs \cup GuideAttrs(groom_dict)
    /\ ni' = 0
    /\ pc' = "for_groom_node"
    /\ UNCHANGED <<ui, scene, graphs, fault, graph_open, loopVars, visitVars,
                   guide_import, convert_node, guide_node, blend_node, conv, skipLogs,
                   paramLog, guideSets, convLogs, entryWin>>

\* line 228: next groom import of the instance
ForGroomNode ==
    /\ pc = "for_groom_node"
    /\ IF ni < Len(groom_nodes)
       THEN ni' = ni + 1 /\ pc' = "create_convert"
       ELSE pc' = "for_yeti" /\ UNCHANGED ni
    /\ UNCHANGED <<ui, scene, graphs, fault, graph_open, loopVars, visitVars,
                   guide_import, convert_node, guide_node, blend_node, conv, logs>>

groom_node == groom_nodes[ni]

\* line 230
CreateConvert ==
    /\ pc = "create_convert"
    /\ CreateCall("convert", NoString, NoParams)
    /\ convert_node' = Created("convert", NoString)
    /\ pc' = "connect_groom_convert"
    /\ UNCHANGED <<guide_import, guide_node, blend_node>>

\* line 231
ConnectGroomConvert ==
    /\ pc = "connect_groom_convert"
    /\ ConnectCall(groom_node, convert_node, 0)
    /\ pc' = "connect_geo_convert"

\* line 232
ConnectGeoConvert ==
    /\ pc = "connect_geo_convert"
    /\ ConnectCall(geo_nodes[1], convert_node, 1)
    /\ pc' = "create_guide"

\* line 235
CreateGuide ==
    /\ pc = "create_guide"
    /\ CreateCall("guide", NoString, NoParams)
    /\ guide_node' = Created("guide", NoString)
    /\ pc' = "connect_convert_guide"
    /\ UNCHANGED <<guide_import, convert_node, blend_node>>

\* line 236
ConnectConvertGuide ==
    /\ pc = "connect_convert_guide"
    /\ ConnectCall(convert_node, guide_node, 0)
    /\ pc' = "connect_import_guide"

\* line 237
ConnectImportGuide ==
    /\ pc = "connect_import_guide"
    /\ ConnectCall(guide_import, guide_node, 1)
    /\ pc' = "create_blend"

\* line 240
CreateBlend ==
    /\ pc = "create_blend"
    /\ CreateCall("blend", NoString, NoParams)
    /\ blend_node' = Created("blend", NoString)
    /\ pc' = "connect_convert_blend"
    /\ UNCHANGED <<guide_import, convert_node, guide_node>>

\* line 241
ConnectConvertBlend ==
    /\ pc = "connect_convert_blend"
    /\ ConnectCall(convert_node, blend_node, 0)
    /\ pc' = "connect_guide_blend"

\* line 242
ConnectGuideBlend ==
    /\ pc = "connect_guide_blend"
    /\ ConnectCall(guide_node, blend_node, 1)
    /\ pc' = "for_groom_node"

ReopenAlways(w, open) == w \cup {YETI_WIN}

\* lines 246-247: the windows after the closing `if graph_open`
Reopen(w, open) == IF open # 0 THEN w \cup {YETI_WIN} ELSE w

\* lines 245-247
Return ==
    /\ pc = "reopen"
    /\ windows' = Reopen(windows, graph_open)
    /\ call' = [fn |-> "guided_grooms", open |-> entryWin]
    /\ pc' = "done"
    /\ UNCHANGED <<scene, graphs, fault, locals, before_curves, logs>>

\* the source line of the host command each position is about to run
HostLine ==
    [for_groom |-> 54, convert |-> 34, examine |-> 96, add_guide_set |-> 206,
     create_guide_import |-> 62, set_type |-> 129, set_geometry |-> 129,
     guide_attrs |-> 221, create_convert |-> 62, connect_groom_convert |-> 143,
     connect_geo_convert |-> 143, create_guide |-> 62, connect_convert_guide |-> 143,
     connect_import_guide |-> 143, create_blend |-> 62, connect_convert_blend |-> 143,
     connect_guide_blend |-> 143, reopen |-> 247]

\* a host command fails: nothing catches it, the run ends where it stands
HostFault ==
    /\ pc \in DOMAIN HostLine
    /\ pc = "for_groom" => gi < Len(grooms)
    /\ pc = "add_guide_set" => groom_dict # <<>>
    /\ pc = "reopen" => graph_open # 0
    /\ Abort("host", HostLine[pc])
    /\ UNCHANGED <<ui, scene, graphs, locals, conv, logs>>

----------------------------------------------------------------------------
(* The helpers called one by one from the script editor (pc = "idle").     *)
(* groom_to_curves runs in three steps there, so that other logic of the   *)
(* scene can create a curve between its two listings.                      *)

HelperGraph ==
    [y1 |-> <<Imp("imp1", 1, "g1"), Imp("geo1", 0, "*"), Imp("imp2", 1, "*"),
              Imp("imp3", 1, "g1"), Imp("imp4", 2, "g1")>>,
     y2 |-> <<Imp("geo1", 0, "body"), Imp("imp1", 4, "*")>>]

InitHelpers ==
    /\ InitHost
    /\ InitLocals
    /\ sel = <<>>
    /\ conn = [g1 |-> <<"y1">>, g2 |-> <<>>]
    /\ graph = HelperGraph
    /\ pc = "idle"

\* helper calls made so far
Calls == nNodes + Cardinality(conns) + Cardinality(paramLog) + Len(produced)

OtherCurves == {i \in 1..Len(curves) : curves[i].oset \in {NoString, "otherset"}}

HelperFrame == UNCHANGED <<sel, conn, fault, locals, skipLogs, guideSets, attrs, entryWin>>

\* the artist opens or closes the graph editor
UserTogglesWindow ==
    /\ pc = "idle"
    /\ windows' = IF YETI_WIN \in windows THEN windows \ {YETI_WIN}
                  ELSE windows \cup {YETI_WIN}
    /\ call' = [fn |-> "user", open |-> YETI_WIN \in windows]
    /\ UNCHANGED <<pc, graphs, curves, members, nCurves, nSets, before_curves, paramLog,
                   convLogs>>
    /\ HelperFrame

\* create_node(y, type, name)
CallCreateNode ==
    /\ pc = "idle"
    /\ Calls < MaxCalls
    /\ \E y \in {"y1"}, type \in {"import", "convert"}, name \in {NoString, "set1"} :
       \E dflt \in (IF type = "import" THEN HostDefaults ELSE {NoParams}) :
        LET r == create_node(graph[y], type, name, nNodes + 1, dflt, NoVisit)
        IN /\ r.node \notin NodeIds(graph[y])
           /\ graph' = [graph EXCEPT ![y] = r.nodes]
           /\ conns' = Disconnect0(conns, y, HostName(type, nNodes + 1))
           /\ nNodes' = nNodes + 1
           /\ windows' = refresh_graph(windows)
           /\ call' = [fn |-> "create_node", open |-> YETI_WIN \in windows]
    /\ UNCHANGED <<pc, curves, members, nCurves, nSets, before_curves, paramLog, convLogs>>
    /\ HelperFrame

\* set_param(y, param, node, val, type)
CallSetParam ==
    /\ pc = "idle"
    /\ Calls < MaxCalls
    /\ \E y \in {"y1"}, i \in 1..3,
          a \in {<<"type", 2, "2", "scalar">>, <<"geometry", "*", "*", "string">>} :
        /\ i <= Len(graph[y])
        /\ ParamCall(y, a[1], graph[y][i].id, a[3], a[4], NoVisit) \notin paramLog
        /\ graph' = [graph EXCEPT ![y] = set_param(graph[y], a[1], graph[y][i].id, a[2])]
        /\ paramLog' = paramLog \cup
                          {ParamCall(y, a[1], graph[y][i].id, a[3], a[4], NoVisit)}
        /\ windows' = refresh_graph(windows)
        /\ call' = [fn |-> "set_param", open |-> YETI_WIN \in windows]
    /\ UNCHANGED <<pc, conns, nNodes, curves, members, nCurves, nSets, before_curves,
                   convLogs>>
    /\ HelperFrame

\* connect_nodes(y, from_node, to_node, input)
CallConnectNodes ==
    /\ pc = "idle"
    /\ Calls < MaxCalls
    /\ \E y \in {"y1"}, i \in 1..2, j \in 2..3, input \in {0, 1} :
        /\ i # j /\ j <= Len(graph[y])
        /\ connect_nodes(conns, y, graph[y][i].id, graph[y][j].id, input, NoVisit) # conns
        /\ conns' = connect_nodes(conns, y, graph[y][i].id, graph[y][j].id, input,
                                  NoVisit)
        /\ windows' = refresh_graph(windows)
        /\ call' = [fn |-> "connect_nodes", open |-> YETI_WIN \in windows]
    /\ UNCHANGED <<pc, graph, nNodes, curves, members, nCurves, nSets, before_curves,
                   paramLog, convLogs>>
    /\ HelperFrame

Selections == {NoString, "*", "g1"}

\* get_imports(y, type, selection)
CallGetImports ==
    /\ pc = "idle"
    /\ \E y \in {"y1"}, type \in ImportTypes, selection \in Selections :
        call' = [fn |-> "get_imports", open |-> YETI_WIN \in windows, yeti |-> y,
                 type |-> type, selection |-> selection,
                 ret |-> get_imports(graph[y], type, selection)]
    /\ UNCHANGED <<ui, pc, graphs, curves, members, nCurves, nSets, before_curves,
                   paramLog, convLogs>>
    /\ HelperFrame

\* groom_to_curves, lines 32-33: the first listing
ListBefore ==
    /\ pc = "idle"
    /\ Calls < MaxCalls
    /\ before_curves' = LsCurves(curves)
    /\ pc' = "convert_command"
    /\ UNCHANGED <<ui, graphs, curves, members, nCurves, nSets, call, paramLog, convLogs>>
    /\ HelperFrame

\* groom_to_curves, line 34: the conversion command
ConvertCommand ==
    /\ pc = "convert_command"
    /\ \E k \in {0, MaxCurves} :
        /\ curves' = HostConvert(curves, k, nCurves, nSets)
        /\ nCurves' = nCurves + k
        /\ nSets' = nSets + (IF k > 0 THEN 1 ELSE 0)
        /\ produced' = Append(produced, MadeCurves(k, nCurves))
    /\ pc' = "list_after"
    /\ UNCHANGED <<ui, graphs, members, before_curves, call, paramLog, dicts>>
    /\ HelperFrame

\* groom_to_curves, lines 35-47: the second listing, the diff, the return
ListAfter ==
    /\ pc = "list_after"
    /\ LET after_curves == LsCurves(curves)
           r == NewCurveDict(before_curves, after_curves, curves)
       IN IF r.fault
          THEN /\ fault' = [kind |-> "TypeError", line |-> 43]
               /\ pc' = "raised"
               /\ UNCHANGED <<members, dicts, call>>
          ELSE /\ members' = members \cup r.adds
               /\ dicts' = Append(dicts, r.dict)
               /\ call' = [fn |-> "groom_to_curves", open |-> YETI_WIN \in windows,
                           before |-> before_curves, after |-> after_curves,
                           ret |-> r.dict]
               /\ pc' = "idle"
               /\ UNCHANGED fault
    /\ UNCHANGED <<ui, sel, conn, graphs, curves, nCurves, nSets, before_curves, locals,
                   skipLogs, wireLogs, produced, entryWin>>

\* other logic of the scene creates a curve while groom_to_curves runs; its
\* transform is in some other set, or in none
OtherCreatesCurve ==
    /\ pc \in {"convert_command", "list_after"}
    /\ Cardinality(OtherCurves) < MaxOther
    /\ \E s \in {NoString, "otherset"} :
        curves' = Append(curves, [shape |-> "other" \o ToString(Len(curves)), oset |-> s])
    /\ UNCHANGED <<ui, pc, graphs, members, nCurves, nSets, before_curves, call, paramLog,
                   convLogs>>
    /\ HelperFrame

Next ==
    \/ Enter
    \/ ForGroom
    \/ Convert
    \/ ForYeti
    \/ Examine
    \/ AddGuideSet
    \/ CreateGuideImport
    \/ SetType
    \/ SetGeometry
    \/ SetGuideAttrs
    \/ ForGroomNode
    \/ CreateConvert
    \/ ConnectGroomConvert
    \/ ConnectGeoConvert
    \/ CreateGuide
    \/ ConnectConvertGuide
    \/ ConnectImportGuide
    \/ CreateBlend
    \/ ConnectConvertBlend
    \/ ConnectGuideBlend
    \/ Return
    \/ HostFault
    \/ UserTogglesWindow
    \/ CallCreateNode
    \/ CallSetParam
    \/ CallConnectNodes
    \/ CallGetImports
    \/ ListBefore
    \/ ConvertCommand
    \/ ListAfter
    \/ OtherCreatesCurve

\* guided_grooms run on a scene, or the helpers called one by one
Spec == (Init \/ InitHelpers) /\ [][Next]_vars

----------------------------------------------------------------------------
(* What the properties speak of *)

\* the positions of guided_grooms between its first and its last statement
Running == DOMAIN HostLine \cup {"for_yeti", "for_groom_node"}

\* every <<groom index, instance index>> the selection and the scene hold
AllVisits == {v \in (1..Len(grooms)) \X (1..2) : v[2] <= Len(conn[grooms[v[1]]])}

VisitGroom(v) == grooms[v[1]]
VisitYeti(v) == conn[grooms[v[1]]][v[2]]

Before(v, w) == v[1] < w[1] \/ (v[1] = w[1] /\ v[2] < w[2])

\* the geometry imports of an instance, among the nodes the scene came with
GeoImports(y) ==
    {i \in DOMAIN graph[y] : /\ graph[y][i].by = NoVisit
                             /\ graph[y][i].kind = "import"
                             /\ graph[y][i].ptype = 0}

GroomImportsOf(y, s) ==
    {i \in DOMAIN graph[y] : /\ graph[y][i].by = NoVisit
                             /\ graph[y][i].kind = "import"
                             /\ graph[y][i].ptype = 1
                             /\ graph[y][i].geometry = s}

\* the groom imports a visit resolves: the groom's own, else the '*' ones
Resolved(v) ==
    IF GroomImportsOf(VisitYeti(v), VisitGroom(v)) # {}
    THEN GroomImportsOf(VisitYeti(v), VisitGroom(v))
    ELSE GroomImportsOf(VisitYeti(v), "*")

ResolvedIds(v) == {graph[VisitYeti(v)][i].id : i \in Resolved(v)}

Fails(v) == Cardinality(GeoImports(VisitYeti(v))) # 1 \/ Resolved(v) = {}

CreatedIn(y, v) ==
    {[yeti |-> y, id |-> graph[y][i].id, kind |-> graph[y][i].kind] :
        i \in {j \in DOMAIN graph[y] : graph[y][j].by = v}}
CreatedBy(v) == UNION {CreatedIn(y, v) : y \in Yetis}
ConnsBy(v) == {c \in conns : c.by = v}
ParamsBy(v) == {c \in paramLog : c.by = v}
GuideSetsBy(v) == {c \in guideSets : c.by = v}
WarningsBy(v) == {i \in DOMAIN warnings : warnings[i].by = v}

Untouched(v) ==
    /\ CreatedBy(v) = {}
    /\ ConnsBy(v) = {}
    /\ ParamsBy(v) = {}
    /\ GuideSetsBy(v) = {}

\* the visit was examined and the loop has moved past it
Finished(v) ==
    /\ v \in examined
    /\ v # Visit \/ pc \in {"for_yeti", "for_groom", "reopen", "done"}

IdsOf(v, kind) == {n.id : n \in {m \in CreatedBy(v) : m.kind = kind}}

Wire(y, f, t, input, v) == [yeti |-> y, from |-> f, to |-> t, input |-> input, by |-> v]

\* the six connections of one groom import r through convert c, guide u, blend b
Triple(v, r, geo, imp, c, u, b) ==
    LET y == VisitYeti(v)
    IN {Wire(y, r, c, 0, v), Wire(y, geo, c, 1, v), Wire(y, c, u, 0, v),
        Wire(y, imp, u, 1, v), Wire(y, c, b, 0, v), Wire(y, u, b, 1, v)}

\* the instance holds what lines 204-242 build, and nothing else of this visit
Wired(v) ==
    LET y == VisitYeti(v)
        n == Cardinality(Resolved(v))
    IN /\ Cardinality(IdsOf(v, "import")) = 1
       /\ Cardinality(IdsOf(v, "convert")) = n
       /\ Cardinality(IdsOf(v, "guide")) = n
       /\ Cardinality(IdsOf(v, "blend")) = n
       /\ Cardinality(CreatedBy(v)) = 1 + 3 * n
       /\ Cardinality(ConnsBy(v)) = 6 * n
       /\ \A geo \in {graph[y][i].id : i \in GeoImports(y)}, imp \in IdsOf(v, "import") :
            /\ \A r \in ResolvedIds(v) :
                 \E c \in IdsOf(v, "convert"), u \in IdsOf(v, "guide"),
                    b \in IdsOf(v, "blend") :
                    Triple(v, r, geo, imp, c, u, b) \subseteq ConnsBy(v)
            /\ \A k \in ConnsBy(v) :
                 \E r \in ResolvedIds(v), c \in IdsOf(v, "convert"),
                    u \in IdsOf(v, "guide"), b \in IdsOf(v, "blend") :
                    k \in Triple(v, r, geo, imp, c, u, b)

----------------------------------------------------------------------------
(* Properties *)

\* C1: an instance that fails a precondition (geometry imports not exactly
\* one, or no groom import for the groom and none for '*') is skipped: once
\* examined it has exactly one warning, and no node, connection, parameter
\* set or guide set registration is ever made for it.
C1_SkipOnFailedPrecondition ==
    \A v \in AllVisits :
        Fails(v) =>
            /\ Untouched(v)
            /\ Cardinality(WarningsBy(v)) = (IF v \in examined THEN 1 ELSE 0)
            /\ v \in examined => Finished(v) \/ pc = "aborted"

C1_Witness ==
    \E v \in examined :
        /\ Cardinality(GeoImports(VisitYeti(v))) = 2
        /\ Resolved(v) # {}
        /\ Cardinality(WarningsBy(v)) = 1
        /\ pc = "done"

IssuedOn(c) ==
    /\ [obj |-> c, attr |-> "weight", val |-> 10] \in attrs
    /\ [obj |-> c, attr |-> "tipAttraction", val |-> 1] \in attrs
    /\ [obj |-> c, attr |-> "baseAttraction", val |-> 1] \in attrs

InfluencesOn(gset) ==
    [obj |-> gset, attr |-> "maxNumberOfGuideInfluences", val |-> 1] \in attrs

\* C3 as claimed: after guided_grooms completes, the guide attributes have
\* been issued on every curve every selected groom's conversion produced, and
\* maxNumberOfGuideInfluences on the curve's guide set.
C3_AsClaimed ==
    pc = "done" =>
        \A g \in 1..Len(produced) :
            \A c \in produced[g] : IssuedOn(c) /\ InfluencesOn(ConnectedSet(curves, c))

\* C3: after guided_grooms completes, weight=10, tipAttraction=1,
\* baseAttraction=1 have been issued on every curve produced for a groom that
\* has an instance passing both preconditions, and
\* maxNumberOfGuideInfluences=1 on the guide set returned for that groom.
C3_AttrsWhenWired ==
    pc = "done" =>
        \A g \in 1..Len(produced) :
            (\E v \in AllVisits : v[1] = g /\ ~Fails(v)) =>
                /\ \A c \in produced[g] : IssuedOn(c)
                /\ dicts[g] # <<>>
                /\ InfluencesOn(dicts[g][1].key)
                /\ \A c \in produced[g] : ConnectedSet(curves, c) = dicts[g][1].key

C3_Witness ==
    /\ pc = "done"
    /\ \E v \in AllVisits :
        /\ ~Fails(v)
        /\ Cardinality(produced[v[1]]) = 2
        /\ \A c \in produced[v[1]] : IssuedOn(c)
        /\ InfluencesOn(dicts[v[1]][1].key)

\* C4 as claimed: for a selected groom connected to no Yeti node nothing
\* happens: its conversion is not invoked, no curve or set is created, no
\* warning, no fault, and the grooms after it are still processed.
C4_AsClaimed ==
    \A g \in 1..Len(grooms) :
        conn[grooms[g]] = <<>> =>
            /\ Len(produced) < g
            /\ \A i \in DOMAIN warnings : warnings[i].by[1] # g
            /\ ~(gi = g /\ pc = "aborted" /\ fault.kind = "TypeError")
            /\ pc = "done" => Len(produced) = Len(grooms)

\* C5: when create_node, set_param or connect_nodes has returned, the graph
\* editor window is not open, whether or not it was open before the call.
C5_ClosedAfterMutation ==
    call.fn \in {"create_node", "set_param", "connect_nodes"} => YETI_WIN \notin windows

C5_Witness ==
    /\ call.fn \in {"create_node", "set_param", "connect_nodes"}
    /\ call.open
    /\ YETI_WIN \notin windows

\* the integer code the host keeps for each logical import type
ClaimedCode(type) ==
    CASE type = "geometry" -> 0
      [] type = "groom" -> 1
      [] type = "guides" -> 2
      [] type = "feather" -> 3
      [] type = "braid" -> 4

\* positions, in the instance's listing, of the imports a query asks for
Asked(y, type, selection) ==
    {i \in DOMAIN graph[y] :
        /\ graph[y][i].kind = "import"
        /\ graph[y][i].ptype = ClaimedCode(type)
        /\ selection # NoString => graph[y][i].geometry = selection}

\* the k-th smallest element of a set of positions
Kth(S, k) == CHOOSE i \in S : Cardinality({j \in S : j < i}) = k - 1

\* C6: get_imports returns, in listing order, exactly the import nodes whose
\* 'type' parameter is the code of the requested type and, when a selection
\* is given, whose 'geometry' parameter equals it literally; '*' is matched
\* literally too.
C6_GetImportsLiteral ==
    call.fn = "get_imports" =>
        LET m == Asked(call.yeti, call.type, call.selection)
        IN /\ Len(call.ret) = Cardinality(m)
           /\ \A k \in 1..Len(call.ret) :
                call.ret[k] = graph[call.yeti][Kth(m, k)].id

C6_Witness ==
    /\ call.fn = "get_imports"
    /\ call.type = "groom"
    /\ call.selection = "*"
    /\ call.ret = <<"imp2">>
    /\ Cardinality(Asked(call.yeti, "groom", NoString)) = 3

\* the curves listed now and not in the first listing
NewSince(before) == {c \in Range(LsCurves(curves)) : c \notin Range(before)}

FirstNewSince(before) ==
    LsCurves(curves)[Kth({i \in DOMAIN curves : curves[i].shape \notin Range(before)}, 1)]

\* what groom_to_curves returned, when it returned
C7_Returned ==
    call.fn = "groom_to_curves" =>
        LET new == {c \in Range(call.after) : c \notin Range(call.before)}
        IN /\ call.ret = <<>> <=> new = {}
           /\ new # {} =>
                /\ Len(call.ret) = 1
                /\ Range(call.ret[1].val) = new
                /\ Len(call.ret[1].val) = Cardinality(new)
                /\ \A c \in new : <<call.ret[1].key, Parent(c)>> \in members

\* C7 as claimed: groom_to_curves always ends by returning: the empty mapping
\* exactly when no curve is new, else a one-key mapping of the new curves.
C7_AsClaimed == C7_Returned /\ pc # "raised"

\* C7: groom_to_curves returns the empty mapping exactly when no curve is
\* listed after the command that was not listed before; otherwise, when the
\* transform of the first new curve is connected to an object set, it returns
\* a one-key mapping (that set) whose value is exactly the new curves, all
\* their transforms added to the set, a curve other logic created in between
\* included; when that transform is connected to no set the call raises and
\* returns nothing.
C7_DiffOfListings ==
    /\ C7_Returned
    /\ call.fn = "groom_to_curves" /\ call.ret # <<>> =>
          /\ call.ret[1].key = ConnectedSet(curves, call.ret[1].val[1])
          /\ call.ret[1].key # NoString
    /\ pc = "raised" =>
          /\ NewSince(before_curves) # {}
          /\ ConnectedSet(curves, FirstNewSince(before_curves)) = NoString

C7_Witness ==
    /\ call.fn = "groom_to_curves"
    /\ call.ret # <<>>
    /\ \E c \in Range(call.ret[1].val) : c \notin UNION Range(produced)
    /\ \E c \in Range(call.ret[1].val) : c \in UNION Range(produced)
    /\ \A c \in Range(call.ret[1].val) : <<call.ret[1].key, Parent(c)>> \in members

\* one step never removes a node or a connection
NoRollback ==
    /\ conns \subseteq conns'
    /\ \A y \in Yetis :
        /\ Len(graph[y]) <= Len(graph'[y])
        /\ \A i \in DOMAIN graph[y] :
            /\ graph'[y][i].id = graph[y][i].id
            /\ graph'[y][i].kind = graph[y][i].kind

\* a completed run has examined every instance of every selected groom and
\* wired each one that passes the preconditions
AllExamined ==
    pc = "done" => \A v \in AllVisits : v \in examined /\ (Fails(v) \/ Wired(v))

\* C8: a skip is local and not fatal: a run that completes has examined every
\* instance of every selected groom and fully wired each passing one; and no
\* step, be it a skip, a fault or the end of the run, removes a node or a
\* connection made earlier.
C8_SkipLocalNoRollback == []AllExamined /\ [][NoRollback]_vars

C8_Witness ==
    /\ pc = "done"
    /\ \E v, w \in examined :
        /\ Before(v, w)
        /\ Fails(v) /\ Cardinality(WarningsBy(v)) = 1
        /\ ~Fails(w) /\ Wired(w)

\* C9: a run that completes leaves the graph editor window as it found it
\* (open at entry: closed first, reopened at the end; closed at entry:
\* closed); while the run is under way, and after a fault, it is closed.
C9_WindowRestored ==
    /\ pc = "done" => (YETI_WIN \in windows <=> entryWin)
    /\ pc \in Running \cup {"aborted"} => YETI_WIN \notin windows

C9_Witness ==
    /\ pc = "done"
    /\ entryWin
    /\ YETI_WIN \in windows
    /\ nNodes > 0

\* C10: when a groom's conversion returned the empty mapping and an instance
\* of it passes both preconditions, the run ends there with the IndexError of
\* line 207: nothing is registered or created for the instance, no warning is
\* emitted for it, and no later instance or groom is processed.
C10_EmptyMappingAborts ==
    /\ \A v \in examined :
        (dicts[v[1]] = <<>> /\ ~Fails(v)) =>
            /\ v = Visit
            /\ \/ pc = "add_guide_set"
               \/ pc = "aborted" /\ fault = [kind |-> "IndexError", line |-> 207]
            /\ Untouched(v)
            /\ WarningsBy(v) = {}
            /\ Len(produced) = v[1]
            /\ \A w \in examined : ~Before(v, w)
    /\ fault.kind = "IndexError" => groom_dict = <<>> /\ Visit \in examined

C10_Witness ==
    /\ pc = "aborted"
    /\ fault.kind = "IndexError"
    /\ ~Fails(Visit)
    /\ Untouched(Visit)
    /\ gi < Len(grooms) \/ yi < Len(yeti_nodes.list)

====
